---- MODULE Spec2Model ----
(***************************************************************************)
(* Model of the aoc_2015 exercises: the floor directions analysis          *)
(* (src/src/floordirections.py) and the present dimensions parser          *)
(* (src/src/presentdimensions.py).  Python strings are sequences of        *)
(* one-character strings; None is the empty tuple and a set value v is     *)
(* the one-element tuple <<v>>.                                            *)
(***************************************************************************)
EXTENDS Integers, Sequences, FiniteSets, TLC

VARIABLES
    analysis,        \* the FloorDirectionsAnalysis objects
    representation,  \* the argument of PresentDimensions.from_string
    origin,          \* the integers the representation was written from, if any
    present,         \* the result of PresentDimensions.from_string
    ctor_args,       \* the arguments of each PresentDimensions(...) call
    objects,         \* the PresentDimensions objects
    got,             \* the value the last property read returned
    cost,            \* the result of wrapping_paper_required for each object
    wrap_args,       \* the argument of each WrappingAnalysis(...) call
    wrapping,        \* the WrappingAnalysis objects
    reader,          \* a call of read_file or read_lines and the path it is given
    cli              \* a run of one of the two programs

floorVars == <<analysis>>
dimsVars == <<representation, origin, present>>
presentVars == <<ctor_args, objects, got, cost>>
wrapVars == <<wrap_args, wrapping>>
readVars == <<reader>>
cliVars == <<cli>>

vars == <<floorVars, dimsVars, presentVars, wrapVars, readVars, cliVars>>

None == <<>>
Some(v) == <<v>>

(***************************************************************************)
(* Bounds                                                                  *)
(***************************************************************************)
\* longest direction sequence enumerated exhaustively
MaxLen == 4

(***************************************************************************)
(* floordirections.py                                                      *)
(***************************************************************************)
VALID_DIRECTIONS == {"(", ")"}

\* characters a sequence handed to the constructor is built from
SequenceChars == VALID_DIRECTIONS \cup {"x"}

StringsUpTo(chars, n) == UNION {[1..k -> chars] : k \in 0..n}

\* the sequences of the docstrings, the tests and the scenarios
ScenarioSequences ==
    { <<")", ")", "(", "(", "(", "(", "(">>,
      <<"(", ")", ")", "(", "(", "(", "(">>,
      <<"(", "(", "(", ")", ")">>,
      <<")", "(", ")", ")", "(", ")", ")">>,
      <<"(", "x", "(", ")">> }

Sequences == StringsUpTo(SequenceChars, MaxLen) \cup ScenarioSequences

\* the two objects a program may hold at once
Instances == {"a", "b"}

\* is_valid_directions_sequence with any() in place of all()
is_valid_directions_sequence_any(sequence) ==
    \E i \in 1..Len(sequence) : sequence[i] \in VALID_DIRECTIONS

is_valid_directions_sequence(sequence) ==
    \A i \in 1..Len(sequence) : sequence[i] \in VALID_DIRECTIONS

\* the exception raised by _validate_directions_sequence, or None
validate_directions_sequence(sequence) ==
    IF ~is_valid_directions_sequence(sequence)
    THEN Some("InvalidFloorDirectionsError")
    ELSE None

RECURSIVE SumFrom(_, _)
SumFrom(directions, i) ==
    IF i > Len(directions) THEN 0
    ELSE (IF directions[i] = "(" THEN 1 ELSE -1) + SumFrom(directions, i + 1)

\* the sum taken over directions[1:], an off-by-one slice
compute_final_floor_skip_first(directions) == SumFrom(directions, 2)

compute_final_floor(directions) == SumFrom(directions, 1)

\* one iteration of the for loop of _find_first_basement_direction, then the rest
RECURSIVE ScanFrom(_, _, _, _)
ScanFrom(directions, position, current_floor, threshold) ==
    IF position > Len(directions) THEN 0
    ELSE LET floor == current_floor + (IF directions[position] = "(" THEN 1 ELSE -1)
         IN  IF floor = threshold THEN position
             ELSE ScanFrom(directions, position + 1, floor, threshold)

\* the scan testing current_floor == -2
find_first_basement_direction_minus_two(directions) == ScanFrom(directions, 1, 0, -2)

find_first_basement_direction(directions) == ScanFrom(directions, 1, 0, -1)

\* an instance not yet constructed; besides the attributes of the object it
\* records what each call returned (ret_*), how often _compute_final_floor and
\* _find_first_basement_direction ran (runs_*) and what a lookup of an attribute
\* named analyze raised (raised_analyze)
NoInstance ==
    [state |-> "none", sequence |-> <<>>, self_directions |-> None,
     self_final_floor |-> None, self_first_basement_direction_position |-> None,
     ret_final_floor |-> None, ret_first_basement_direction_position |-> None,
     runs_compute_final_floor |-> 0, runs_find_first_basement_direction |-> 0,
     raised_analyze |-> None]

\* the names an instance answers to: the attributes __init__ assigns and the
\* names defined in the class body
Attributes ==
    {"_directions", "_final_floor", "_first_basement_direction_position",
     "VALID_DIRECTIONS", "__init__", "_validate_directions_sequence",
     "is_valid_directions_sequence", "_compute_final_floor",
     "_find_first_basement_direction", "final_floor",
     "first_basement_direction_position"}

\* the exception the attribute lookup instance.name raises, or ""
getattr(name) == IF name \in Attributes THEN "" ELSE "AttributeError"

\* the cache test taking 0 for an unset value (`if not self._final_floor`)
is_unset_or_zero(cache) == cache = None \/ cache = Some(0)

\* the cache test of lines 161 and 168: `is None`
is_unset(cache) == cache = None

\* FloorDirectionsAnalysis(sequence)
Construct(i, sequence) ==
    /\ analysis[i].state = "none"
    /\ LET raised == validate_directions_sequence(sequence)
       IN  analysis' = [analysis EXCEPT ![i] =
             IF raised # None
             THEN [NoInstance EXCEPT !.state = raised[1], !.sequence = sequence]
             ELSE [NoInstance EXCEPT !.state = "ok", !.sequence = sequence,
                                     !.self_directions = Some(sequence)]]
    /\ UNCHANGED <<dimsVars, presentVars, wrapVars, readVars, cliVars>>

\* analysis.final_floor
ReadFinalFloor(i) ==
    /\ analysis[i].state = "ok"
    /\ LET compute == is_unset(analysis[i].self_final_floor)
           cached == IF compute
                     THEN Some(compute_final_floor(analysis[i].self_directions[1]))
                     ELSE analysis[i].self_final_floor
       IN  analysis' = [analysis EXCEPT
                          ![i].self_final_floor = cached,
                          ![i].ret_final_floor = cached,
                          ![i].runs_compute_final_floor = IF compute THEN @ + 1 ELSE @]
    /\ UNCHANGED <<dimsVars, presentVars, wrapVars, readVars, cliVars>>

\* analysis.first_basement_direction_position
ReadFirstBasement(i) ==
    /\ analysis[i].state = "ok"
    /\ LET compute == is_unset(analysis[i].self_first_basement_direction_position)
           cached ==
             IF compute
             THEN Some(find_first_basement_direction(analysis[i].self_directions[1]))
             ELSE analysis[i].self_first_basement_direction_position
       IN  analysis' = [analysis EXCEPT
                          ![i].self_first_basement_direction_position = cached,
                          ![i].ret_first_basement_direction_position = cached,
                          ![i].runs_find_first_basement_direction =
                              IF compute THEN @ + 1 ELSE @]
    /\ UNCHANGED <<dimsVars, presentVars, wrapVars, readVars, cliVars>>

\* analysis.analyze(): the lookup of the attribute, which the call follows
Analyze(i) ==
    /\ analysis[i].state = "ok"
    /\ analysis' = [analysis EXCEPT ![i].raised_analyze = Some(getattr("analyze"))]
    /\ UNCHANGED <<dimsVars, presentVars, wrapVars, readVars, cliVars>>

(***************************************************************************)
(* presentdimensions.py                                                    *)
(***************************************************************************)
Digits == {"0", "1", "2", "3", "4", "5", "6", "7", "8", "9"}

DigitValue ==
    [c \in Digits |->
        CASE c = "0" -> 0 [] c = "1" -> 1 [] c = "2" -> 2 [] c = "3" -> 3
          [] c = "4" -> 4 [] c = "5" -> 5 [] c = "6" -> 6 [] c = "7" -> 7
          [] c = "8" -> 8 [] c = "9" -> 9]

Whitespace == {" ", "\t", "\n"}

\* str.strip(): s without its leading and trailing whitespace
strip(s) ==
    LET kept == {i \in 1..Len(s) : s[i] \notin Whitespace}
    IN  IF kept = {} THEN <<>>
        ELSE LET first == CHOOSE i \in kept : \A j \in kept : i <= j
                 last == CHOOSE i \in kept : \A j \in kept : j <= i
             IN  SubSeq(s, first, last)

\* str.split(sep): the pieces of s between the occurrences of sep, empty ones kept
RECURSIVE split(_, _)
split(s, sep) ==
    LET at == {i \in 1..Len(s) : s[i] = sep}
    IN  IF at = {} THEN <<s>>
        ELSE LET k == CHOOSE i \in at : \A j \in at : i <= j
             IN  <<SubSeq(s, 1, k - 1)>> \o split(SubSeq(s, k + 1, Len(s)), sep)

RECURSIVE DigitsValue(_, _, _)
DigitsValue(s, i, acc) ==
    IF i > Len(s) THEN acc
    ELSE IF s[i] = "_" THEN DigitsValue(s, i + 1, acc)
    ELSE DigitsValue(s, i + 1, 10 * acc + DigitValue[s[i]])

\* int(token): surrounding whitespace is dropped, one sign may lead, the digits
\* may be grouped by single underscores; anything else raises ValueError
int(token) ==
    LET s == strip(token)
        signed == Len(s) > 0 /\ s[1] \in {"+", "-"}
        body == IF signed THEN SubSeq(s, 2, Len(s)) ELSE s
        wellformed ==
            /\ Len(body) > 0
            /\ \A i \in 1..Len(body) : body[i] \in Digits \cup {"_"}
            /\ body[1] # "_"
            /\ body[Len(body)] # "_"
            /\ \A i \in 1..(Len(body) - 1) : ~(body[i] = "_" /\ body[i + 1] = "_")
    IN  IF ~wellformed THEN [exc |-> "ValueError", value |-> 0]
        ELSE [exc |-> "",
              value |-> IF signed /\ s[1] = "-"
                        THEN 0 - DigitsValue(body, 1, 0)
                        ELSE DigitsValue(body, 1, 0)]

\* the exception classes with PresentDimensionsError deriving from Exception
ExceptionBaseNotValueError ==
    [InvalidPresentRepresentationError |-> "PresentDimensionsError",
     PresentDimensionsNotPositiveError |-> "PresentDimensionsError",
     PresentDimensionsError |-> "Exception",
     ValueError |-> "Exception",
     TypeError |-> "Exception",
     AttributeError |-> "Exception",
     FloorDirectionsAnalysisError |-> "ValueError",
     InvalidFloorDirectionsError |-> "FloorDirectionsAnalysisError",
     FileInputError |-> "Exception",
     FileEncodingError |-> "FileInputError",
     NotAccessibleError |-> "FileInputError",
     NotAFileError |-> "FileInputError",
     PathDoesNotExistError |-> "FileInputError",
     UnicodeDecodeError |-> "ValueError",
     OSError |-> "Exception",
     PermissionError |-> "OSError",
     FileNotFoundError |-> "OSError",
     IsADirectoryError |-> "OSError",
     MemoryError |-> "Exception",
     Exception |-> "BaseException",
     KeyboardInterrupt |-> "BaseException",
     SystemExit |-> "BaseException",
     BaseException |-> "BaseException"]

\* the base class of each exception class
ExceptionBase ==
    [InvalidPresentRepresentationError |-> "PresentDimensionsError",
     PresentDimensionsNotPositiveError |-> "PresentDimensionsError",
     PresentDimensionsError |-> "ValueError",
     ValueError |-> "Exception",
     TypeError |-> "Exception",
     AttributeError |-> "Exception",
     FloorDirectionsAnalysisError |-> "ValueError",
     InvalidFloorDirectionsError |-> "FloorDirectionsAnalysisError",
     FileInputError |-> "Exception",
     FileEncodingError |-> "FileInputError",
     NotAccessibleError |-> "FileInputError",
     NotAFileError |-> "FileInputError",
     PathDoesNotExistError |-> "FileInputError",
     UnicodeDecodeError |-> "ValueError",
     OSError |-> "Exception",
     PermissionError |-> "OSError",
     FileNotFoundError |-> "OSError",
     IsADirectoryError |-> "OSError",
     MemoryError |-> "Exception",
     Exception |-> "BaseException",
     KeyboardInterrupt |-> "BaseException",
     SystemExit |-> "BaseException",
     BaseException |-> "BaseException"]

\* whether an `except class` clause catches an exception of class exc
RECURSIVE Catches(_, _)
Catches(class, exc) ==
    \/ exc = class
    \/ (ExceptionBase[exc] # exc /\ Catches(class, ExceptionBase[exc]))

\* sorted() of a tuple, by insertion
RECURSIVE sorted(_)
sorted(t) ==
    IF Len(t) <= 1 THEN t
    ELSE LET rest == sorted(Tail(t))
             below == {i \in 1..Len(rest) : rest[i] < Head(t)}
             n == Cardinality(below)
         IN  SubSeq(rest, 1, n) \o <<Head(t)>> \o SubSeq(rest, n + 1, Len(rest))

RECURSIVE sum(_)
sum(t) == IF t = <<>> THEN 0 ELSE Head(t) + sum(Tail(t))

Raised(exc) ==
    [status |-> exc, length |-> 0, width |-> 0, height |-> 0,
     side_areas |-> <<>>, surface_area |-> 0]

NoPresent ==
    [status |-> "pending", length |-> 0, width |-> 0, height |-> 0,
     side_areas |-> <<>>, surface_area |-> 0]

\* __init__ storing the arguments as (length, height, width)
PresentDimensions_init_swapped(length, width, height) ==
    IF length < 1 \/ width < 1 \/ height < 1
    THEN Raised("PresentDimensionsNotPositiveError")
    ELSE LET areas == sorted(<<length * width, length * height, width * height>>)
         IN  [status |-> "ok", length |-> length, width |-> height, height |-> width,
              side_areas |-> areas, surface_area |-> 2 * sum(areas)]

\* __init__ rejecting only negative dimensions (< 0 in place of < 1)
PresentDimensions_init_zero_allowed(length, width, height) ==
    IF length < 0 \/ width < 0 \/ height < 0
    THEN Raised("PresentDimensionsNotPositiveError")
    ELSE LET areas == sorted(<<length * width, length * height, width * height>>)
         IN  [status |-> "ok", length |-> length, width |-> width, height |-> height,
              side_areas |-> areas, surface_area |-> 2 * sum(areas)]

\* __init__ keeping the side areas in the order they are computed in
PresentDimensions_init_unsorted(length, width, height) ==
    IF length < 1 \/ width < 1 \/ height < 1
    THEN Raised("PresentDimensionsNotPositiveError")
    ELSE LET areas == <<length * width, length * height, width * height>>
         IN  [status |-> "ok", length |-> length, width |-> width, height |-> height,
              side_areas |-> areas, surface_area |-> 2 * sum(areas)]

\* PresentDimensions(length, width, height) for integer arguments
PresentDimensions_init(length, width, height) ==
    IF length < 1 \/ width < 1 \/ height < 1
    THEN Raised("PresentDimensionsNotPositiveError")
    ELSE LET areas == sorted(<<length * width, length * height, width * height>>)
         IN  [status |-> "ok", length |-> length, width |-> width, height |-> height,
              side_areas |-> areas, surface_area |-> 2 * sum(areas)]

\* the types of an argument that is not a str; bytes has strip() and split(), the
\* others have no attribute strip
NonStrTypes == {"int", "NoneType", "list", "dict", "bytes"}

TypesWithStrip == {"str", "bytes"}

\* the try block of from_string: the object built, or the exception raised in it
from_string_try(rep) ==
    IF rep.type \notin TypesWithStrip THEN Raised("AttributeError")
    ELSE IF rep.type = "bytes" THEN Raised("TypeError")
    ELSE LET tokens == split(strip(rep.value), "x")
             dimensions == [k \in 1..Len(tokens) |-> int(tokens[k])]
         IN  IF \E k \in 1..Len(tokens) : dimensions[k].exc # ""
             THEN Raised("ValueError")
             ELSE IF Len(dimensions) # 3 THEN Raised("ValueError")
             ELSE PresentDimensions_init(dimensions[1].value, dimensions[2].value,
                                         dimensions[3].value)

\* the except clauses without the AttributeError clause
from_string_except_no_attribute_clause(result) ==
    IF result.status = "ok" THEN result
    ELSE IF Catches("ValueError", result.status)
    THEN Raised("InvalidPresentRepresentationError")
    ELSE result

\* the except clauses of from_string, in order
from_string_except(result) ==
    IF result.status = "ok" THEN result
    ELSE IF Catches("AttributeError", result.status) THEN Raised("TypeError")
    ELSE IF Catches("ValueError", result.status)
    THEN Raised("InvalidPresentRepresentationError")
    ELSE result

from_string(rep) == from_string_except(from_string_try(rep))

\* longest representation enumerated exhaustively
MaxStrLen == 6

\* largest dimension written out as decimal text
MaxDim == 11

RepresentationChars == {"0", "1", "x", "-", "a", " "}

\* the representations of the tests, and some with whitespace, signs, underscores
ScenarioRepresentations ==
    { <<"3", "x", "2">>,
      <<"3", "x", "2", "x", "1">>,
      <<"3", "x", "2", "x", "1", "x", "4">>,
      <<"3", "x", "2", "x", "a", "b", "c">>,
      <<"3", "x", "x", "2">>,
      <<"3", "x", "x", "2", "x", "3">>,
      <<"x", "2", "x", "3">>,
      <<"2", "x", "3", "x">>,
      <<"3", "x", "2", "x", "-", "1">>,
      <<"3", "x", "-", "2", "x", "1">>,
      <<"-", "3", "x", "2", "x", "1">>,
      <<"2", "x", "3", "x", "4">>,
      <<"1", "x", "1", "x", "1", "0">>,
      <<" ", "3", "x", "2", "x", "1", "\n">>,
      <<"+", "3", "x", " ", "2", " ", "x", "1", "_", "0">>,
      <<"3", "x", "2", "_", "_", "0", "x", "1">>,
      <<"3", "x", "_", "2", "x", "1">>,
      <<"3", "x", "2", " ", "2", "x", "1">>,
      <<"3", "x", "-", " ", "2", "x", "1">>,
      <<"1", "x", "1", "x", "-", "0">>,
      <<" ">> }

Representations ==
    {[type |-> "str", value |-> v] :
        v \in StringsUpTo(RepresentationChars, MaxStrLen) \cup ScenarioRepresentations}
    \cup {[type |-> t, value |-> <<>>] : t \in NonStrTypes}

DigitChar == <<"0", "1", "2", "3", "4", "5", "6", "7", "8", "9">>

\* the decimal text of n >= 0
RECURSIVE DecimalText(_)
DecimalText(n) ==
    IF n < 10 THEN <<DigitChar[n + 1]>>
    ELSE DecimalText(n \div 10) \o <<DigitChar[(n % 10) + 1]>>

\* the text "LxWxH"
DimensionsText(L, W, H) ==
    DecimalText(L) \o <<"x">> \o DecimalText(W) \o <<"x">> \o DecimalText(H)

\* PresentDimensions.from_string(representation)
FromString ==
    /\ present.status = "pending"
    /\ present' = from_string(representation)
    /\ UNCHANGED <<representation, origin>>
    /\ UNCHANGED <<floorVars, presentVars, wrapVars, readVars, cliVars>>


(***************************************************************************)
(* presentdimensions.py: the constructor and the properties                *)
(***************************************************************************)
\* the names a program binds PresentDimensions objects to
Objects == {"p", "q"}

\* largest integer passed to the constructor
MaxArg == 3

IntArgs == {[type |-> "int", value |-> n] : n \in (-1)..MaxArg}

\* arguments that are no integers: '1', 1.5
NonIntArgs == {[type |-> "str", value |-> 0], [type |-> "float", value |-> 0]}

\* __init__ testing the dimensions before the types
PresentDimensions_call_positivity_first(length, width, height) ==
    IF length.value < 1 \/ width.value < 1 \/ height.value < 1
    THEN Raised("PresentDimensionsNotPositiveError")
    ELSE IF ~(length.type = "int" /\ width.type = "int" /\ height.type = "int")
    THEN Raised("TypeError")
    ELSE PresentDimensions_init(length.value, width.value, height.value)

\* PresentDimensions(length, width, height): the isinstance test, then the rest
PresentDimensions_call(length, width, height) ==
    IF ~(length.type = "int" /\ width.type = "int" /\ height.type = "int")
    THEN Raised("TypeError")
    ELSE PresentDimensions_init(length.value, width.value, height.value)

\* the property returning the last element of the sorted side areas
smallest_side_area_last(self) == self.side_areas[Len(self.side_areas)]

\* PresentDimensions.smallest_side_area
smallest_side_area(self) == self.side_areas[1]

Returned(o, property, value) == [object |-> o, property |-> property, value |-> <<value>>]

\* o = PresentDimensions(*ctor_args[o])
NewPresent(o) ==
    /\ objects[o].status = "pending"
    /\ objects' = [objects EXCEPT ![o] =
          PresentDimensions_call(ctor_args[o][1], ctor_args[o][2], ctor_args[o][3])]
    /\ UNCHANGED <<ctor_args, got, cost>>
    /\ UNCHANGED <<floorVars, dimsVars, wrapVars, readVars, cliVars>>

\* o.length
GetLength(o) ==
    /\ objects[o].status = "ok"
    /\ got' = Returned(o, "length", objects[o].length)
    /\ UNCHANGED <<ctor_args, objects, cost>>
    /\ UNCHANGED <<floorVars, dimsVars, wrapVars, readVars, cliVars>>

\* o.width
GetWidth(o) ==
    /\ objects[o].status = "ok"
    /\ got' = Returned(o, "width", objects[o].width)
    /\ UNCHANGED <<ctor_args, objects, cost>>
    /\ UNCHANGED <<floorVars, dimsVars, wrapVars, readVars, cliVars>>

\* o.height
GetHeight(o) ==
    /\ objects[o].status = "ok"
    /\ got' = Returned(o, "height", objects[o].height)
    /\ UNCHANGED <<ctor_args, objects, cost>>
    /\ UNCHANGED <<floorVars, dimsVars, wrapVars, readVars, cliVars>>

\* o.side_areas
GetSideAreas(o) ==
    /\ objects[o].status = "ok"
    /\ got' = Returned(o, "side_areas", objects[o].side_areas)
    /\ UNCHANGED <<ctor_args, objects, cost>>
    /\ UNCHANGED <<floorVars, dimsVars, wrapVars, readVars, cliVars>>

\* o.smallest_side_area
GetSmallestSideArea(o) ==
    /\ objects[o].status = "ok"
    /\ got' = Returned(o, "smallest_side_area", smallest_side_area(objects[o]))
    /\ UNCHANGED <<ctor_args, objects, cost>>
    /\ UNCHANGED <<floorVars, dimsVars, wrapVars, readVars, cliVars>>

\* o.surface_area
GetSurfaceArea(o) ==
    /\ objects[o].status = "ok"
    /\ got' = Returned(o, "surface_area", objects[o].surface_area)
    /\ UNCHANGED <<ctor_args, objects, cost>>
    /\ UNCHANGED <<floorVars, dimsVars, wrapVars, readVars, cliVars>>

(***************************************************************************)
(* wrappinganalysis.py                                                     *)
(***************************************************************************)
\* a value handed to the wrapping analysis: a PresentDimensions object, or a
\* value of another type
PresentValue(dims) == [type |-> "PresentDimensions", dims |-> dims]

OtherValue(type) == [type |-> type, dims |-> NoPresent]

\* the exception _validate_present_dimensions raises, or ""
validate_present_dimensions(present_dimensions) ==
    IF present_dimensions.type # "PresentDimensions" THEN "TypeError" ELSE ""

\* WrappingAnalysis._compute_wrapping_paper_required
compute_wrapping_paper_required(dims) == dims.surface_area + smallest_side_area(dims)

\* WrappingAnalysis.wrapping_paper_required(present_dimensions)
wrapping_paper_required(present_dimensions) ==
    IF validate_present_dimensions(present_dimensions) # ""
    THEN [arg |-> present_dimensions, exc |-> "TypeError", value |-> None]
    ELSE [arg |-> present_dimensions, exc |-> "",
          value |-> Some(compute_wrapping_paper_required(present_dimensions.dims))]

\* cost[o] = WrappingAnalysis.wrapping_paper_required(value)
WrappingPaperRequired(o, value) ==
    /\ cost' = [cost EXCEPT ![o] = Some(wrapping_paper_required(value))]
    /\ UNCHANGED <<ctor_args, objects, got>>
    /\ UNCHANGED <<floorVars, dimsVars, wrapVars, readVars, cliVars>>

\* the WrappingAnalysis instances: "ab" is built from the concatenation of the
\* lists "a" and "b" are built from
WrapInstances == {"a", "b", "ab"}

\* an argument of WrappingAnalysis(...): a list, or a value of another type
ListValue(items) == [type |-> "list", items |-> items]

NonListValue(type, items) == [type |-> type, items |-> items]

\* a WrappingAnalysis not yet constructed; besides the attributes of the object
\* it records the total last returned (read) and how often the sum of line 131
\* ran (runs_sum)
NoWrapping ==
    [status |-> "pending", dims |-> <<>>, total_paper_area |-> None, read |-> None,
     runs_sum |-> 0]

\* WrappingAnalysis._validate_dimensions_list: the exception raised (or "") and
\* the validated list
validate_dimensions_list(dims_list) ==
    IF dims_list.type # "list"
    THEN [exc |-> "TypeError", dims |-> <<>>]
    ELSE IF \E k \in 1..Len(dims_list.items) :
                validate_present_dimensions(dims_list.items[k]) # ""
         THEN [exc |-> "TypeError", dims |-> <<>>]
         ELSE [exc |-> "", dims |-> dims_list.items]

\* WrappingAnalysis.__init__
WrappingAnalysis_init(present_dimensions_list) ==
    LET validated == validate_dimensions_list(present_dimensions_list)
    IN  IF validated.exc # ""
        THEN [NoWrapping EXCEPT !.status = validated.exc]
        ELSE [NoWrapping EXCEPT !.status = "ok", !.dims = validated.dims,
                                !.total_paper_area = Some(-1)]

\* the total computed without the first present
total_wrapping_paper_required_skip_first(self) ==
    IF self.total_paper_area[1] < 0
    THEN sum([k \in 1..(Len(self.dims) - 1) |->
                 compute_wrapping_paper_required(self.dims[k + 1].dims)])
    ELSE self.total_paper_area[1]

\* WrappingAnalysis.total_wrapping_paper_required: the value of
\* _total_paper_area after the test of line 130
total_wrapping_paper_required(self) ==
    IF self.total_paper_area[1] < 0
    THEN sum([k \in 1..Len(self.dims) |->
                 compute_wrapping_paper_required(self.dims[k].dims)])
    ELSE self.total_paper_area[1]

\* wrapping[w] = WrappingAnalysis(wrap_args[w])
NewWrappingAnalysis(w) ==
    /\ wrapping[w].status = "pending"
    /\ wrapping' = [wrapping EXCEPT ![w] = WrappingAnalysis_init(wrap_args[w])]
    /\ UNCHANGED wrap_args
    /\ UNCHANGED <<floorVars, dimsVars, presentVars, readVars, cliVars>>

\* wrapping[w].total_wrapping_paper_required
ReadTotal(w) ==
    /\ wrapping[w].status = "ok"
    /\ LET total == total_wrapping_paper_required(wrapping[w])
       IN  wrapping' = [wrapping EXCEPT
                          ![w].total_paper_area = Some(total),
                          ![w].read = Some(total),
                          ![w].runs_sum =
                              IF wrapping[w].total_paper_area[1] < 0 THEN @ + 1 ELSE @]
    /\ UNCHANGED wrap_args
    /\ UNCHANGED <<floorVars, dimsVars, presentVars, readVars, cliVars>>

(***************************************************************************)
(* fileinputhandler.py                                                     *)
(***************************************************************************)
\* what the path names when a step of the reader looks at it: nothing, a
\* directory (or another non-regular file), or a regular file with its read
\* permission, whether its bytes are valid UTF-8, and its text
Missing == [kind |-> "missing", readable |-> TRUE, utf8 |-> TRUE, text |-> <<>>]

Directory(readable) == [kind |-> "directory", readable |-> readable, utf8 |-> TRUE, text |-> <<>>]

File(readable, utf8, text) == [kind |-> "file", readable |-> readable, utf8 |-> utf8, text |-> text]

\* Path.exists()
exists(node) == node.kind # "missing"

\* Path.is_file()
is_file(node) == node.kind = "file"

\* the exception path.open('r', encoding='utf-8') raises, or ""
open(node) ==
    CASE node.kind = "missing" -> "FileNotFoundError"
      [] node.kind = "directory" -> "IsADirectoryError"
      [] ~node.readable -> "PermissionError"
      [] OTHER -> ""

\* text mode with newline=None: '\r\n' and '\r' are read as '\n'
RECURSIVE universal_newlines(_)
universal_newlines(text) ==
    IF text = <<>> THEN <<>>
    ELSE IF Head(text) = "\r"
    THEN IF Len(text) >= 2 /\ text[2] = "\n"
         THEN <<"\n">> \o universal_newlines(SubSeq(text, 3, Len(text)))
         ELSE <<"\n">> \o universal_newlines(Tail(text))
    ELSE <<Head(text)>> \o universal_newlines(Tail(text))

\* file.read(): the exception raised (or "") and the text
file_read(node) ==
    IF ~node.utf8
    THEN [exc |-> "UnicodeDecodeError", value |-> <<>>]
    ELSE [exc |-> "", value |-> universal_newlines(node.text)]

\* the lines of a text as file.readlines() cuts them: each line keeps its '\n'
RECURSIVE lines_of(_)
lines_of(text) ==
    LET at == {i \in 1..Len(text) : text[i] = "\n"}
    IN  IF text = <<>> THEN <<>>
        ELSE IF at = {} THEN <<text>>
        ELSE LET k == CHOOSE i \in at : \A j \in at : i <= j
             IN  <<SubSeq(text, 1, k)>> \o lines_of(SubSeq(text, k + 1, Len(text)))

\* file.readlines(): the exception raised (or "") and the list of lines
file_readlines(node) ==
    IF ~node.utf8
    THEN [exc |-> "UnicodeDecodeError", value |-> <<>>]
    ELSE [exc |-> "", value |-> lines_of(universal_newlines(node.text))]

\* the except clauses without the PermissionError clause
read_except_no_permission_clause(exc) ==
    IF Catches("UnicodeDecodeError", exc) THEN "FileEncodingError"
    ELSE exc

\* the except clauses of read_file and read_lines: the exception leaving the
\* function when exc is raised in the try block
read_except(exc) ==
    IF Catches("PermissionError", exc) THEN "NotAccessibleError"
    ELSE IF Catches("UnicodeDecodeError", exc) THEN "FileEncodingError"
    ELSE exc

ReadFunctions == {"read_file", "read_lines"}

\* a call of fn on a path naming node, about to run `if not path.exists()`
NewCall(fn, node) ==
    [fn |-> fn, node |-> node, pc |-> "exists", calls |-> <<>>, exc |-> "", value |-> None]

Raise(call, exc) == [call EXCEPT !.pc = "done", !.exc = exc]

\* if not path.exists(): raise PathDoesNotExistError
exists_step(call) ==
    LET called == [call EXCEPT !.calls = Append(@, "exists")]
    IN  IF ~exists(call.node) THEN Raise(called, "PathDoesNotExistError")
        ELSE [called EXCEPT !.pc = "is_file"]

\* if not path.is_file(): raise NotAFileError
is_file_step(call) ==
    LET called == [call EXCEPT !.calls = Append(@, "is_file")]
    IN  IF ~is_file(call.node) THEN Raise(called, "NotAFileError")
        ELSE [called EXCEPT !.pc = "open"]

\* with path.open('r', encoding='utf-8') as file
open_step(call) ==
    LET called == [call EXCEPT !.calls = Append(@, "open")]
    IN  IF open(call.node) # "" THEN Raise(called, read_except(open(call.node)))
        ELSE [called EXCEPT !.pc = "read"]

\* return file.read() / return file.readlines()
read_step(call) ==
    LET called == [call EXCEPT !.calls = Append(@, "read")]
        result == IF call.fn = "read_file" THEN file_read(call.node)
                  ELSE file_readlines(call.node)
    IN  IF result.exc # "" THEN Raise(called, read_except(result.exc))
        ELSE [called EXCEPT !.pc = "done", !.value = Some(result.value)]

ReaderUnchanged == UNCHANGED <<floorVars, dimsVars, presentVars, wrapVars, cliVars>>

Exists ==
    /\ reader.pc = "exists"
    /\ reader' = exists_step(reader)
    /\ ReaderUnchanged

IsFile ==
    /\ reader.pc = "is_file"
    /\ reader' = is_file_step(reader)
    /\ ReaderUnchanged

Open ==
    /\ reader.pc = "open"
    /\ reader' = open_step(reader)
    /\ ReaderUnchanged

Read ==
    /\ reader.pc = "read"
    /\ reader' = read_step(reader)
    /\ ReaderUnchanged

(***************************************************************************)
(* outputhandler.py, floorfinder.py, wrappingordercalc.py                  *)
(***************************************************************************)
Programs == {"floorfinder", "wrappingordercalc"}

\* ReturnCode of floorfinder.py
floorfinder_ReturnCode ==
    [SUCCESS |-> 0, KEYBOARD_INTERRUPT |-> 1, UNEXPECTED_ERROR |-> 2,
     FILE_READING_ERROR |-> 3, MALFORMED_INPUT_ERROR |-> 4]

\* ReturnCode of wrappingordercalc.py
wrappingordercalc_ReturnCode ==
    [SUCCESS |-> 0, KEYBOARD_INTERRUPT |-> 1, UNEXPECTED_ERROR |-> 2,
     FILE_READING_ERROR |-> 3, MALFORMED_INPUT_ERROR |-> 4]

ReturnCode(program) ==
    IF program = "floorfinder" THEN floorfinder_ReturnCode ELSE wrappingordercalc_ReturnCode

\* a line printed to a stream: its fixed text, the values formatted into it and
\* the exception formatted into it as its cause
Line(text, values, cause) == [text |-> text, values |-> values, cause |-> cause]

\* the function main() reads the file with
reader_of(program) == IF program = "floorfinder" THEN "read_file" ELSE "read_lines"

\* the class of the second except clause of main()
content_error_of(program) ==
    IF program = "floorfinder" THEN "FloorDirectionsAnalysisError" ELSE "PresentDimensionsError"

\* read_file(path) / read_lines(path) run to their end
RECURSIVE run_call(_)
run_call(call) ==
    CASE call.pc = "done" -> call
      [] call.pc = "exists" -> run_call(exists_step(call))
      [] call.pc = "is_file" -> run_call(is_file_step(call))
      [] call.pc = "open" -> run_call(open_step(call))
      [] OTHER -> run_call(read_step(call))

\* the except clauses of main() with the two return codes exchanged
main_except_codes_exchanged(program, exc) ==
    IF Catches("FileInputError", exc) THEN Some(ReturnCode(program).MALFORMED_INPUT_ERROR)
    ELSE IF Catches(content_error_of(program), exc)
    THEN Some(ReturnCode(program).FILE_READING_ERROR)
    ELSE None

\* the except clauses of main(): the code main() will return for an exception
\* raised in its try block, None when no clause catches it
main_except(program, exc) ==
    IF Catches("FileInputError", exc) THEN Some(ReturnCode(program).FILE_READING_ERROR)
    ELSE IF Catches(content_error_of(program), exc)
    THEN Some(ReturnCode(program).MALFORMED_INPUT_ERROR)
    ELSE None

\* the text of the message main() passes to notify_error
error_message(code) ==
    IF code = 3 THEN "Could not read input file" ELSE "Malformed input"

\* the text of the message main() passes to notify_success
success_message(program) ==
    IF program = "floorfinder" THEN "Final Floor, First basement direction position"
    ELSE "Total Square Feet of Wrapping Paper"

\* the steps of main() at which an exception can be raised
TrySteps == {"parse_arguments", "read", "analyse", "notify_success", "notify_success_message"}

HandlerSteps == {"notify_error", "notify_error_message"}

MainSteps == TrySteps \cup HandlerSteps

\* a run about to call main()
NewRun(program, argv, node) ==
    [program |-> program, argv |-> argv, node |-> node, pc |-> "parse_arguments",
     trace |-> <<>>, content |-> None, outcome |-> <<>>, stdout |-> <<>>, stderr |-> <<>>,
     code |-> None, cause |-> "", result |-> None, exc |-> "", status |-> None,
     exit_code |-> None]

Step(run) == [run EXCEPT !.trace = Append(@, run.pc)]

\* exc leaves main()
Propagate(run, exc, status) == [run EXCEPT !.pc = "raised", !.exc = exc, !.status = status]

\* exc is raised in the try block of main()
Except(run, exc) ==
    LET code == main_except(run.program, exc)
    IN  IF code = None THEN Propagate(run, exc, None)
        ELSE [run EXCEPT !.pc = "notify_error", !.code = code, !.cause = exc]

\* parse_arguments(): the path, or argparse's exit for a missing argument
\* (usage on stderr, status 2) and for -h (help on stdout, status 0)
parse_arguments(run) ==
    CASE run.argv = "file" -> [run EXCEPT !.pc = "read"]
      [] run.argv = "none" ->
            Propagate([run EXCEPT !.stderr = @ \o <<Line("usage", <<>>, ""),
                                                   Line("error: arguments required", <<>>, "")>>],
                      "SystemExit", Some(2))
      [] OTHER ->
            Propagate([run EXCEPT !.stdout = Append(@, Line("usage and help", <<>>, ""))],
                      "SystemExit", Some(0))

\* the text of floorfinder's file kept without its surrounding whitespace
read_result_stripped(run, call) ==
    IF call.exc # "" THEN Except(run, call.exc)
    ELSE [run EXCEPT !.pc = "analyse",
                     !.content = IF run.program = "floorfinder"
                                 THEN Some(strip(call.value[1])) ELSE call.value]

\* the end of the reader's call in main(): its exception is raised in the try
\* block, or its value is bound as it is
read_result(run, call) ==
    IF call.exc # "" THEN Except(run, call.exc)
    ELSE [run EXCEPT !.pc = "analyse", !.content = call.value]

\* read_file(file_path) / read_lines(file_path)
read_input(run) ==
    read_result(run, run_call(NewCall(reader_of(run.program), run.node)))

\* FloorDirectionsAnalysis(file_content) and the two properties formatted into
\* the message
analyse_floor(run) ==
    LET raised == validate_directions_sequence(run.content[1])
    IN  IF raised # None THEN Except(run, raised[1])
        ELSE [run EXCEPT !.pc = "notify_success",
                         !.outcome = <<compute_final_floor(run.content[1]),
                                       find_first_basement_direction(run.content[1])>>]

\* the analysis leaving out the lines from_string rejects
analyse_wrapping_skip_malformed(run) ==
    LET lines == run.content[1]
        presents == [k \in 1..Len(lines) |-> from_string([type |-> "str", value |-> lines[k]])]
        kept == SelectSeq(presents, LAMBDA present_dimensions : present_dimensions.status = "ok")
        built == WrappingAnalysis_init(
                     ListValue([k \in 1..Len(kept) |-> PresentValue(kept[k])]))
    IN  [run EXCEPT !.pc = "notify_success",
                    !.outcome = <<total_wrapping_paper_required(built)>>]

\* [PresentDimensions.from_string(line) for line in ...], WrappingAnalysis(...)
\* and the total formatted into the message
analyse_wrapping(run) ==
    LET lines == run.content[1]
        presents == [k \in 1..Len(lines) |-> from_string([type |-> "str", value |-> lines[k]])]
        failed == {k \in 1..Len(lines) : presents[k].status # "ok"}
        built == WrappingAnalysis_init(
                     ListValue([k \in 1..Len(lines) |-> PresentValue(presents[k])]))
    IN  IF failed # {}
        THEN Except(run, presents[CHOOSE k \in failed : \A j \in failed : k <= j].status)
        ELSE IF built.status # "ok" THEN Except(run, built.status)
        ELSE [run EXCEPT !.pc = "notify_success",
                         !.outcome = <<total_wrapping_paper_required(built)>>]

analyse(run) ==
    IF run.program = "floorfinder" THEN analyse_floor(run) ELSE analyse_wrapping(run)

\* the print calls of notify_error
notify_error(run, lines) == [run EXCEPT !.stderr = @ \o lines]

\* notify_success printing to stderr
notify_success_to_stderr(run, lines) == [run EXCEPT !.stderr = @ \o lines]

\* the print calls of notify_success
notify_success(run, lines) == [run EXCEPT !.stdout = @ \o lines]

\* the __main__ guard treating an interrupt like any other exception
guard_interrupt_as_unexpected(run) ==
    CASE run.exc = "" -> [run EXCEPT !.pc = "exited", !.exit_code = run.result]
      [] Catches("Exception", run.exc) \/ Catches("KeyboardInterrupt", run.exc) ->
            [notify_error(run, <<Line("Execution failed", <<>>, ""),
                                 Line("Critical failure", <<>>, run.exc)>>)
                EXCEPT !.pc = "exited",
                       !.exit_code = Some(ReturnCode(run.program).UNEXPECTED_ERROR)]
      [] OTHER -> [run EXCEPT !.pc = "exited", !.exit_code = run.status]

\* the __main__ guard: sysexit(main()) and its two except clauses; SystemExit
\* passes through with its own status
guard(run) ==
    CASE run.exc = "" -> [run EXCEPT !.pc = "exited", !.exit_code = run.result]
      [] Catches("KeyboardInterrupt", run.exc) ->
            [notify_error(run, <<Line("Execution failed", <<>>, ""),
                                 Line("Execution interrupted by user", <<>>, "")>>)
                EXCEPT !.pc = "exited",
                       !.exit_code = Some(ReturnCode(run.program).KEYBOARD_INTERRUPT)]
      [] Catches("Exception", run.exc) ->
            [notify_error(run, <<Line("Execution failed", <<>>, ""),
                                 Line("Critical failure", <<>>, run.exc)>>)
                EXCEPT !.pc = "exited",
                       !.exit_code = Some(ReturnCode(run.program).UNEXPECTED_ERROR)]
      [] OTHER -> [run EXCEPT !.pc = "exited", !.exit_code = run.status]

CliUnchanged == UNCHANGED <<floorVars, dimsVars, presentVars, wrapVars, readVars>>

\* file_path = parse_arguments()
ParseArguments ==
    /\ cli.pc = "parse_arguments"
    /\ cli' = parse_arguments(Step(cli))
    /\ CliUnchanged

\* file_content = read_file(file_path) / read_lines(file_path)
ReadInput ==
    /\ cli.pc = "read"
    /\ cli' = read_input(Step(cli))
    /\ CliUnchanged

\* validation and computation
Analyse ==
    /\ cli.pc = "analyse"
    /\ cli' = analyse(Step(cli))
    /\ CliUnchanged

\* notify_success: print('Execution successful')
NotifySuccess ==
    /\ cli.pc = "notify_success"
    /\ cli' = [notify_success(Step(cli), <<Line("Execution successful", <<>>, "")>>)
                  EXCEPT !.pc = "notify_success_message"]
    /\ CliUnchanged

\* notify_success: print(message), then return ReturnCode.SUCCESS
NotifySuccessMessage ==
    /\ cli.pc = "notify_success_message"
    /\ cli' = [notify_success(Step(cli),
                              <<Line(success_message(cli.program), cli.outcome, "")>>)
                  EXCEPT !.pc = "returned",
                         !.result = Some(ReturnCode(cli.program).SUCCESS)]
    /\ CliUnchanged

\* notify_error: print('Execution failed', file=sys.stderr)
NotifyError ==
    /\ cli.pc = "notify_error"
    /\ cli' = [notify_error(Step(cli), <<Line("Execution failed", <<>>, "")>>)
                  EXCEPT !.pc = "notify_error_message"]
    /\ CliUnchanged

\* notify_error: print(error, file=sys.stderr), then return the handler's code
NotifyErrorMessage ==
    /\ cli.pc = "notify_error_message"
    /\ cli' = [notify_error(Step(cli),
                            <<Line(error_message(cli.code[1]), <<>>, cli.cause)>>)
                  EXCEPT !.pc = "returned", !.result = cli.code]
    /\ CliUnchanged

\* the user interrupts the program while main() runs
Interrupt ==
    /\ cli.pc \in MainSteps
    /\ cli' = IF cli.pc \in TrySteps THEN Except(Step(cli), "KeyboardInterrupt")
              ELSE Propagate(Step(cli), "KeyboardInterrupt", None)
    /\ CliUnchanged

\* exceptions no step of main() expects: a failed write to a stream or a read
\* failing in another way (OSError), exhausted memory, a type error of a defect
Unexpected == {"OSError", "MemoryError", "TypeError"}

Fail(exc) ==
    /\ cli.pc \in MainSteps
    /\ cli' = IF cli.pc \in TrySteps THEN Except(Step(cli), exc)
              ELSE Propagate(Step(cli), exc, None)
    /\ CliUnchanged

\* if __name__ == '__main__': the exit with main()'s code, or an except clause
Guard ==
    /\ cli.pc \in {"returned", "raised"}
    /\ cli' = guard(cli)
    /\ CliUnchanged

(***************************************************************************)
(* The read of main() taken one file system call at a time, while another  *)
(* process changes what the path names                                     *)
(***************************************************************************)
\* no call of a reader function under way
NoCall ==
    [fn |-> "", node |-> Missing, pc |-> "idle", calls |-> <<>>, exc |-> "", value |-> None]

\* what another process may leave at the path: nothing, a directory, a file that
\* may not be read, a file
ChangedNodes == {Missing, Directory(TRUE), File(FALSE, TRUE, <<>>), File(TRUE, TRUE, <<>>)}

RaceUnchanged == UNCHANGED <<floorVars, dimsVars, presentVars, wrapVars>>

\* main() calls read_file(file_path) / read_lines(file_path)
StartRead ==
    /\ cli.pc = "read"
    /\ reader.pc = "idle"
    /\ cli' = [Step(cli) EXCEPT !.pc = "reading"]
    /\ reader' = NewCall(reader_of(cli.program), cli.node)
    /\ RaceUnchanged

\* another process removes or replaces what the path names, after exists()
\* answered and before the file is open
FsChange(node) ==
    /\ cli.pc = "reading"
    /\ reader.pc \in {"is_file", "open"}
    /\ reader.node = cli.node
    /\ node # reader.node
    /\ reader' = [reader EXCEPT !.node = node]
    /\ UNCHANGED cli
    /\ RaceUnchanged

\* the call returns to main() or raises into its try block
FinishRead ==
    /\ cli.pc = "reading"
    /\ reader.pc = "done"
    /\ cli' = read_result(cli, reader)
    /\ UNCHANGED reader
    /\ RaceUnchanged

(***************************************************************************)
(* Specifications: each exercises one component and leaves the others idle *)
(***************************************************************************)
FloorIdle == analysis = [i \in Instances |-> NoInstance]

DimsIdle ==
    /\ representation = [type |-> "str", value |-> <<>>]
    /\ origin = <<>>
    /\ present = NoPresent

PresentIdle ==
    /\ ctor_args = <<>>
    /\ objects = <<>>
    /\ got = <<>>
    /\ cost = <<>>

WrapIdle ==
    /\ wrap_args = <<>>
    /\ wrapping = <<>>

ReadIdle == reader = <<>>

CliIdle == cli = <<>>

\* the floor directions analysis
Init ==
    /\ FloorIdle
    /\ DimsIdle
    /\ PresentIdle
    /\ WrapIdle
    /\ ReadIdle
    /\ CliIdle

Next ==
    \/ \E i \in Instances, sequence \in Sequences : Construct(i, sequence)
    \/ \E i \in Instances : ReadFinalFloor(i)
    \/ \E i \in Instances : ReadFirstBasement(i)

Spec == Init /\ [][Next]_vars

\* the argument of from_string: any bounded representation, or the text written
\* from three positive integers, which origin records
InitDims ==
    /\ FloorIdle
    /\ PresentIdle
    /\ WrapIdle
    /\ ReadIdle
    /\ CliIdle
    /\ present = NoPresent
    /\ \/ /\ origin = <<>>
          /\ representation \in Representations
       \/ \E L, W, H \in 1..MaxDim :
            /\ origin = <<L, W, H>>
            /\ representation = [type |-> "str", value |-> DimensionsText(L, W, H)]

NextDims == FromString

SpecDims == InitDims /\ [][NextDims]_vars

\* the six orders of a triple
Permutations3 ==
    {<<1, 2, 3>>, <<1, 3, 2>>, <<2, 1, 3>>, <<2, 3, 1>>, <<3, 1, 2>>, <<3, 2, 1>>}

NoGot == [object |-> "", property |-> "", value |-> <<>>]

\* the constructor and the properties: p is built from any three integers, q from
\* the same three in some order
InitPresent ==
    /\ FloorIdle
    /\ DimsIdle
    /\ WrapIdle
    /\ ReadIdle
    /\ CliIdle
    /\ \E args \in IntArgs \X IntArgs \X IntArgs, order \in Permutations3 :
          ctor_args = [o \in Objects |->
              IF o = "p" THEN args
              ELSE <<args[order[1]], args[order[2]], args[order[3]]>>]
    /\ objects = [o \in Objects |-> NoPresent]
    /\ got = NoGot
    /\ cost = [o \in Objects |-> None]

NextPresent ==
    \/ \E o \in Objects : NewPresent(o)
    \/ \E o \in Objects : GetLength(o)
    \/ \E o \in Objects : GetWidth(o)
    \/ \E o \in Objects : GetHeight(o)
    \/ \E o \in Objects : GetSideAreas(o)
    \/ \E o \in Objects : GetSmallestSideArea(o)
    \/ \E o \in Objects : GetSurfaceArea(o)
    \/ \E o \in Objects :
          objects[o].status = "ok" /\ WrappingPaperRequired(o, PresentValue(objects[o]))

SpecPresent == InitPresent /\ [][NextPresent]_vars

\* the bound on the length of the lists "a" and "b"
MaxPresents == 2

\* the presents of the doctests and tests (2x3x4, 1x1x10, 1x2x3 as in 3 * [...])
PresentPool ==
    {PresentValue(PresentDimensions_init(2, 3, 4)),
     PresentValue(PresentDimensions_init(1, 1, 10)),
     PresentValue(PresentDimensions_init(1, 2, 3))}

ListsUpTo(pool, n) == UNION {[1..m -> pool] : m \in 0..n}

\* the wrapping analysis of lists of presents
InitWrap ==
    /\ FloorIdle
    /\ DimsIdle
    /\ PresentIdle
    /\ ReadIdle
    /\ CliIdle
    /\ \E A \in ListsUpTo(PresentPool, MaxPresents) :
       \E B \in ListsUpTo(PresentPool, MaxPresents) :
           wrap_args = [w \in WrapInstances |->
                           CASE w = "a" -> ListValue(A)
                             [] w = "b" -> ListValue(B)
                             [] OTHER -> ListValue(A \o B)]
    /\ wrapping = [w \in WrapInstances |-> NoWrapping]

NextWrap ==
    \E w \in WrapInstances :
        \/ NewWrappingAnalysis(w)
        \/ ReadTotal(w)

SpecWrap == InitWrap /\ [][NextWrap]_vars

\* arguments of the constructor: a non-positive and a positive int, and values
\* of other types
TypedArgs == {[type |-> "int", value |-> -1], [type |-> "int", value |-> 2]} \cup NonIntArgs

\* elements of the lists: a present, and the dict of test_not_present_dimensions
TypedPool == {PresentValue(PresentDimensions_init(1, 1, 10)), OtherValue("dict")}

\* arguments of WrappingAnalysis(...): lists, the Mock of test_not_a_list_arg,
\* a tuple holding a present, None
TypedLists ==
    {ListValue(items) : items \in ListsUpTo(TypedPool, MaxPresents)}
      \cup {NonListValue("PresentDimensions", <<>>),
            NonListValue("tuple", <<PresentValue(PresentDimensions_init(1, 1, 10))>>),
            NonListValue("NoneType", <<>>)}

\* arguments of wrapping_paper_required: besides a built present, a dict and an int
TypedValues == {OtherValue("dict"), OtherValue("int")}

\* calls with arguments of right and wrong types
InitTypes ==
    /\ FloorIdle
    /\ DimsIdle
    /\ ReadIdle
    /\ CliIdle
    /\ \E l \in TypedArgs, w \in TypedArgs, h \in TypedArgs :
          ctor_args = [o \in Objects |-> IF o = "p" THEN <<l, w, h>> ELSE <<h, w, l>>]
    /\ objects = [o \in Objects |-> NoPresent]
    /\ got = NoGot
    /\ cost = [o \in Objects |-> None]
    /\ \E arg \in TypedLists :
          wrap_args = [w \in WrapInstances |-> IF w = "a" THEN arg ELSE ListValue(<<>>)]
    /\ wrapping = [w \in WrapInstances |-> NoWrapping]

NextTypes ==
    \/ NewPresent("p")
    \/ \E value \in TypedValues : WrappingPaperRequired("p", value)
    \/ objects["p"].status = "ok" /\ WrappingPaperRequired("p", PresentValue(objects["p"]))
    \/ NewWrappingAnalysis("a")
    \/ ReadTotal("a")

SpecTypes == InitTypes /\ [][NextTypes]_vars

\* the bound on the length of a file's text
MaxFileLen == 3

\* a letter and the characters line terminators are made of
FileChars == {"a", "\n", "\r"}

FileTexts == UNION {[1..n -> FileChars] : n \in 0..MaxFileLen}

Nodes ==
    {Missing} \cup {Directory(r) : r \in BOOLEAN}
      \cup {File(r, u, text) : r \in BOOLEAN, u \in BOOLEAN, text \in FileTexts}

\* one call of read_file or read_lines on a path of any kind
InitRead ==
    /\ FloorIdle
    /\ DimsIdle
    /\ PresentIdle
    /\ WrapIdle
    /\ CliIdle
    /\ \E fn \in ReadFunctions, node \in Nodes : reader = NewCall(fn, node)

NextRead ==
    \/ Exists
    \/ IsFile
    \/ Open
    \/ Read

SpecRead == InitRead /\ [][NextRead]_vars

\* the bound on the number of lines of a dimensions file
MaxLines == 2

\* directions files: the characters of the sequences and a line terminator
FloorFileChars == {"(", ")", "\n"}

FloorFileTexts == UNION {[1..n -> FloorFileChars] : n \in 0..MaxFileLen}

\* lines of dimensions files: valid ones, the malformed line of
\* test_main_malformed_file, a non-positive dimension, an empty line
LinePool ==
    {<<"2", "x", "3", "x", "4">>, <<"1", "x", "1", "x", "1", "0">>,
     <<"1", "x", "x", "2", "x", "3">>, <<"0", "x", "1", "x", "1">>, <<>>}

RECURSIVE JoinLines(_)
JoinLines(lines) ==
    IF lines = <<>> THEN <<>> ELSE Head(lines) \o <<"\n">> \o JoinLines(Tail(lines))

\* every line ends with '\n', or every line but the last does
WrappingFileTexts ==
    LET all == {JoinLines(lines) : lines \in ListsUpTo(LinePool, MaxLines)}
    IN  all \cup {SubSeq(text, 1, Len(text) - 1) : text \in all \ {<<>>}}

FileTextsOf(program) ==
    IF program = "floorfinder" THEN FloorFileTexts ELSE WrappingFileTexts

\* a text both programs reject
RejectedText == <<"x">>

NodesOf(program) ==
    {Missing, Directory(TRUE), File(FALSE, TRUE, <<>>), File(TRUE, FALSE, <<>>),
     File(FALSE, TRUE, RejectedText), File(TRUE, FALSE, RejectedText)}
      \cup {File(TRUE, TRUE, text) : text \in FileTextsOf(program)}

\* one run of either program as a script
InitCli ==
    /\ FloorIdle
    /\ DimsIdle
    /\ PresentIdle
    /\ WrapIdle
    /\ ReadIdle
    /\ \E program \in Programs :
          \/ \E node \in NodesOf(program) : cli = NewRun(program, "file", node)
          \/ \E argv \in {"none", "help"} : cli = NewRun(program, argv, Missing)

NextCli ==
    \/ ParseArguments
    \/ ReadInput
    \/ Analyse
    \/ NotifySuccess
    \/ NotifySuccessMessage
    \/ NotifyError
    \/ NotifyErrorMessage
    \/ Interrupt
    \/ \E exc \in Unexpected : Fail(exc)
    \/ Guard

SpecCli == InitCli /\ [][NextCli]_vars

\* one run of either script whose path another process may change during the read
InitRace ==
    /\ FloorIdle
    /\ DimsIdle
    /\ PresentIdle
    /\ WrapIdle
    /\ reader = NoCall
    /\ \E program \in Programs :
          \E node \in NodesOf(program) : cli = NewRun(program, "file", node)

NextRace ==
    \/ ParseArguments
    \/ StartRead
    \/ Exists
    \/ IsFile
    \/ Open
    \/ Read
    \/ \E node \in ChangedNodes : FsChange(node)
    \/ FinishRead
    \/ Analyse
    \/ NotifySuccess
    \/ NotifySuccessMessage
    \/ NotifyError
    \/ NotifyErrorMessage
    \/ Interrupt
    \/ \E exc \in Unexpected : Fail(exc)
    \/ Guard

SpecRace == InitRace /\ [][NextRace]_vars

\* one analyzer and one WrappingAnalysis (of no present or of one present), and
\* the calls a client makes on them, in any order and any number of times
InitCalls ==
    /\ FloorIdle
    /\ DimsIdle
    /\ PresentIdle
    /\ ReadIdle
    /\ CliIdle
    /\ \E list \in ListsUpTo(PresentPool, 1) :
          wrap_args = [w \in WrapInstances |->
                          IF w = "a" THEN ListValue(list) ELSE ListValue(<<>>)]
    /\ wrapping = [w \in WrapInstances |-> NoWrapping]

NextCalls ==
    \/ \E sequence \in Sequences : Construct("a", sequence)
    \/ ReadFinalFloor("a")
    \/ ReadFirstBasement("a")
    \/ Analyze("a")
    \/ NewWrappingAnalysis("a")
    \/ ReadTotal("a")

SpecCalls == InitCalls /\ [][NextCalls]_vars

(***************************************************************************)
(* Properties of the floor directions analysis                             *)
(***************************************************************************)
CountOf(sequence, char) == Cardinality({i \in 1..Len(sequence) : sequence[i] = char})

\* the running floor after the first k symbols
RunningFloor(sequence, k) ==
    Cardinality({i \in 1..k : sequence[i] = "("})
      - Cardinality({i \in 1..k : sequence[i] = ")"})

BasementIndexes(sequence) == {k \in 1..Len(sequence) : RunningFloor(sequence, k) = -1}

IsPermutation(s, t) ==
    /\ Len(s) = Len(t)
    /\ \A char \in SequenceChars : CountOf(s, char) = CountOf(t, char)

FinalFloorRead(i) == analysis[i].state = "ok" /\ analysis[i].ret_final_floor # None

FirstBasementRead(i) ==
    analysis[i].state = "ok" /\ analysis[i].ret_first_basement_direction_position # None

\* C1: for every sequence of only "(" and ")", final_floor is the number of "("
\* minus the number of ")" in the whole sequence.
C1_FinalFloorIsUpsMinusDowns ==
    \A i \in Instances :
        FinalFloorRead(i) =>
            analysis[i].ret_final_floor[1] =
                CountOf(analysis[i].sequence, "(") - CountOf(analysis[i].sequence, ")")

C1_Witness ==
    \E i \in Instances :
        /\ FinalFloorRead(i)
        /\ Len(analysis[i].sequence) >= 3
        /\ CountOf(analysis[i].sequence, "(") >= 1
        /\ CountOf(analysis[i].sequence, ")") >= 2

C3_RejectedIffInvalidSymbol ==
    \A i \in Instances :
        analysis[i].state # "none" =>
            /\ (analysis[i].state = "InvalidFloorDirectionsError")
                 <=> (\E k \in 1..Len(analysis[i].sequence) :
                        analysis[i].sequence[k] \notin {"(", ")"})
            /\ analysis[i].state = "InvalidFloorDirectionsError" =>
                 /\ analysis[i].self_directions = None
                 /\ analysis[i].self_final_floor = None
                 /\ analysis[i].self_first_basement_direction_position = None
                 /\ analysis[i].ret_final_floor = None
                 /\ analysis[i].ret_first_basement_direction_position = None
            /\ analysis[i].state = "ok" =>
                 /\ analysis[i].self_directions = Some(analysis[i].sequence)
                 /\ \A k \in 1..Len(analysis[i].self_directions[1]) :
                      analysis[i].self_directions[1][k] \in {"(", ")"}

C3_Witness ==
    /\ analysis["a"].state = "InvalidFloorDirectionsError"
    /\ Len(analysis["a"].sequence) >= 2
    /\ analysis["a"].sequence[1] = "("
    /\ analysis["b"].state = "ok"
    /\ Len(analysis["b"].sequence) >= 2

TwoDownsFiveUps == <<")", ")", "(", "(", "(", "(", "(">>

BothRead(i) == FinalFloorRead(i) /\ FirstBasementRead(i)

\* C4 as stated: "))(((((" gives final floor 3 and first basement position 2.
C4_Original ==
    \A i \in Instances :
        (BothRead(i) /\ analysis[i].sequence = TwoDownsFiveUps) =>
            /\ analysis[i].ret_final_floor[1] = 3
            /\ analysis[i].ret_first_basement_direction_position[1] = 2

\* C4 (amended): "))(((((" gives final floor 3 and first basement position 1,
\* the first ")" already leading to floor -1.
C4_TwoDownsFiveUps ==
    \A i \in Instances :
        (BothRead(i) /\ analysis[i].sequence = TwoDownsFiveUps) =>
            /\ analysis[i].ret_final_floor[1] = 3
            /\ analysis[i].ret_first_basement_direction_position[1] = 1

C4_Witness ==
    \E i \in Instances : BothRead(i) /\ analysis[i].sequence = TwoDownsFiveUps

\* C5: the empty sequence is valid (construction does not fail) and yields
\* final_floor = 0 and first_basement_direction_position = 0.
C5_EmptySequence ==
    \A i \in Instances :
        (analysis[i].state # "none" /\ analysis[i].sequence = <<>>) =>
            /\ analysis[i].state = "ok"
            /\ FinalFloorRead(i) => analysis[i].ret_final_floor[1] = 0
            /\ FirstBasementRead(i) =>
                 analysis[i].ret_first_basement_direction_position[1] = 0

C5_Witness ==
    \E i \in Instances : BothRead(i) /\ analysis[i].sequence = <<>>

\* C6: two valid sequences that are permutations of one multiset of symbols have
\* equal final_floor (first_basement_direction_position may differ: C6_Witness).
C6_FinalFloorPermutationInvariant ==
    \A i, j \in Instances :
        (/\ FinalFloorRead(i)
         /\ FinalFloorRead(j)
         /\ IsPermutation(analysis[i].sequence, analysis[j].sequence))
        => analysis[i].ret_final_floor[1] = analysis[j].ret_final_floor[1]

C6_Witness ==
    /\ BothRead("a")
    /\ BothRead("b")
    /\ IsPermutation(analysis["a"].sequence, analysis["b"].sequence)
    /\ analysis["a"].sequence # analysis["b"].sequence
    /\ analysis["a"].ret_final_floor[1] = analysis["b"].ret_final_floor[1]
    /\ analysis["a"].ret_first_basement_direction_position[1]
         # analysis["b"].ret_first_basement_direction_position[1]

(***************************************************************************)
(* Properties of PresentDimensions.from_string                             *)
(***************************************************************************)
Parsed == present.status # "pending"

\* the positions of the separators, with the two ends of the text
Cuts(s) == {0, Len(s) + 1} \cup {i \in 1..Len(s) : s[i] = "x"}

\* the "x"-separated tokens of s, as a set of <<first, last>> index pairs
TokenSpans(s) ==
    {<<a + 1, b - 1>> : <<a, b>> \in
        {c \in Cuts(s) \X Cuts(s) :
            c[1] < c[2] /\ \A k \in Cuts(s) : ~(c[1] < k /\ k < c[2])}}

\* s[from..to] is whitespace around an optionally signed run of digits that
\* single underscores may group
IsIntegerToken(s, from, to) ==
    \E a, b \in from..to :
        /\ a <= b
        /\ \A i \in from..to : (i < a \/ i > b) => s[i] \in Whitespace
        /\ LET d == IF s[a] \in {"+", "-"} THEN a + 1 ELSE a
           IN  /\ d <= b
               /\ s[d] \in Digits
               /\ s[b] \in Digits
               /\ \A i \in d..b : s[i] \in Digits \cup {"_"}
               /\ \A i \in d..(b - 1) : s[i] = "_" => s[i + 1] \in Digits

\* an integer token is positive when it has no minus sign and a digit other than 0
IsPositiveToken(s, from, to) ==
    /\ IsIntegerToken(s, from, to)
    /\ \A i \in from..to : s[i] # "-"
    /\ \E i \in from..to : s[i] \in Digits \ {"0"}

ThreeIntegerTokens(s) ==
    /\ Cardinality(TokenSpans(s)) = 3
    /\ \A span \in TokenSpans(s) : IsIntegerToken(s, span[1], span[2])

ThreePositiveTokens(s) ==
    /\ Cardinality(TokenSpans(s)) = 3
    /\ \A span \in TokenSpans(s) : IsPositiveToken(s, span[1], span[2])

\* C7: for positive integers L, W, H, from_string("LxWxH") succeeds and yields
\* length = L, width = W, height = H, in that order.
C7_FromStringRoundTrip ==
    (Parsed /\ origin # <<>>) =>
        /\ present.status = "ok"
        /\ present.length = origin[1]
        /\ present.width = origin[2]
        /\ present.height = origin[3]

C7_Witness ==
    /\ Parsed
    /\ origin # <<>>
    /\ origin[1] >= 10
    /\ origin[2] < origin[3]
    /\ origin[3] < origin[1]
    /\ present.status = "ok"

\* C8 as stated: three integer tokens of which one is zero or negative fail with
\* PresentDimensionsNotPositiveError, whereas a token count other than 3 or a
\* non-integer token fails with InvalidPresentRepresentationError.
C8_Original ==
    (Parsed /\ representation.type = "str") =>
        /\ (ThreeIntegerTokens(representation.value)
              /\ ~ThreePositiveTokens(representation.value))
             => present.status = "PresentDimensionsNotPositiveError"
        /\ ~ThreeIntegerTokens(representation.value)
             => present.status = "InvalidPresentRepresentationError"

C10_Original ==
    (Parsed /\ representation.type # "str")
    => present.status = "InvalidPresentRepresentationError"

\* C10 (amended): a non-string argument makes from_string fail with TypeError.
C10_NonStringIsTypeError ==
    (Parsed /\ representation.type # "str") => present.status = "TypeError"

C10_Witness ==
    /\ Parsed
    /\ representation.type = "dict"
    /\ present.status = "TypeError"

(***************************************************************************)
(* Properties of the PresentDimensions constructor and properties          *)
(***************************************************************************)
Built(o) == objects[o].status # "pending"

IntegerArguments(o) == \A k \in 1..3 : ctor_args[o][k].type = "int"

Arg(o, k) == ctor_args[o][k].value

GotFrom(o, property) == got.object = o /\ got.property = property

\* C11: for integer arguments the constructor fails with
\* PresentDimensionsNotPositiveError iff one of length, width, height is <= 0;
\* otherwise it succeeds and length, width, height return the arguments.
C11_NotPositiveIffSomeArgumentNotPositive ==
    \A o \in Objects :
        (Built(o) /\ IntegerArguments(o)) =>
            /\ (objects[o].status = "PresentDimensionsNotPositiveError")
                 <=> (\E k \in 1..3 : Arg(o, k) <= 0)
            /\ (\A k \in 1..3 : Arg(o, k) > 0) => objects[o].status = "ok"
            /\ GotFrom(o, "length") => got.value = <<Arg(o, 1)>>
            /\ GotFrom(o, "width") => got.value = <<Arg(o, 2)>>
            /\ GotFrom(o, "height") => got.value = <<Arg(o, 3)>>

C11_Witness ==
    /\ objects["p"].status = "PresentDimensionsNotPositiveError"
    /\ Arg("p", 1) > 0
    /\ Arg("p", 2) = 0
    /\ Arg("p", 3) > 0

Products(o) == <<Arg(o, 1) * Arg(o, 2), Arg(o, 1) * Arg(o, 3), Arg(o, 2) * Arg(o, 3)>>

Occurrences(t, v) == Cardinality({k \in 1..Len(t) : t[k] = v})

\* t holds the values of u, each as often as u does, in non-decreasing order
IsSortedFormOf(t, u) ==
    /\ Len(t) = Len(u)
    /\ \A k \in 1..Len(u) : Occurrences(t, u[k]) = Occurrences(u, u[k])
    /\ \A k \in 1..(Len(t) - 1) : t[k] <= t[k + 1]

\* C12: side_areas is the three products L*W, L*H, W*H in non-decreasing order,
\* surface_area is 2*(L*W + L*H + W*H), and smallest_side_area is the first
\* element of side_areas, the minimum of the three products.
C12_DerivedAreas ==
    \A o \in Objects :
        objects[o].status = "ok" =>
            /\ IsSortedFormOf(objects[o].side_areas, Products(o))
            /\ objects[o].surface_area
                 = 2 * (Arg(o, 1) * Arg(o, 2) + Arg(o, 1) * Arg(o, 3) + Arg(o, 2) * Arg(o, 3))
            /\ GotFrom(o, "side_areas") => got.value = <<objects[o].side_areas>>
            /\ GotFrom(o, "surface_area") => got.value = <<objects[o].surface_area>>
            /\ GotFrom(o, "smallest_side_area") =>
                 /\ got.value = <<objects[o].side_areas[1]>>
                 /\ \E k \in 1..3 : got.value[1] = Products(o)[k]
                 /\ \A k \in 1..3 : got.value[1] <= Products(o)[k]

C12_Witness ==
    /\ objects["p"].status = "ok"
    /\ GotFrom("p", "smallest_side_area")
    /\ Arg("p", 1) > Arg("p", 2)
    /\ Arg("p", 2) > Arg("p", 3)

\* C13: for positive L, W, H and every order of them, PresentDimensions built
\* from the reordered triple has the same surface_area, smallest_side_area and
\* side_areas, and the same wrapping cost.
C13_AreasPermutationInvariant ==
    (objects["p"].status = "ok" /\ objects["q"].status = "ok") =>
        /\ objects["p"].side_areas = objects["q"].side_areas
        /\ objects["p"].surface_area = objects["q"].surface_area
        /\ smallest_side_area(objects["p"]) = smallest_side_area(objects["q"])
        /\ (cost["p"] # None /\ cost["q"] # None) =>
             /\ cost["p"][1].exc = ""
             /\ cost["q"][1].exc = ""
             /\ cost["p"][1].value = cost["q"][1].value

C13_Witness ==
    /\ objects["p"].status = "ok"
    /\ objects["q"].status = "ok"
    /\ cost["p"] # None
    /\ cost["q"] # None
    /\ Arg("p", 1) < Arg("p", 2)
    /\ Arg("p", 2) < Arg("p", 3)
    /\ Arg("q", 1) = Arg("p", 3)
    /\ Arg("q", 2) = Arg("p", 1)

(***************************************************************************)
(* Properties of the wrapping analysis                                     *)
(***************************************************************************)
\* the cost of one present as the claims state it
CostOf(value) ==
    value.dims.surface_area
      + (CHOOSE m \in {value.dims.side_areas[k] : k \in 1..3} :
            \A k \in 1..3 : m <= value.dims.side_areas[k])

RECURSIVE SumOfCosts(_)
SumOfCosts(items) ==
    IF items = <<>> THEN 0 ELSE CostOf(Head(items)) + SumOfCosts(Tail(items))

TotalRead(w) == wrapping[w].read # None

\* C14: total_wrapping_paper_required is the sum over the list of
\* surface_area + smallest_side_area, once per occurrence: 0 for the empty list,
\* wrapping_paper_required(p) for [p], and total(A + B) = total(A) + total(B).
C14_TotalIsSumOfCosts ==
    /\ \A w \in WrapInstances :
          TotalRead(w) =>
              /\ wrapping[w].read[1] = SumOfCosts(wrap_args[w].items)
              /\ wrap_args[w].items = <<>> => wrapping[w].read[1] = 0
              /\ Len(wrap_args[w].items) = 1 =>
                    /\ wrapping_paper_required(wrap_args[w].items[1]).exc = ""
                    /\ wrapping[w].read
                         = wrapping_paper_required(wrap_args[w].items[1]).value
    /\ (TotalRead("a") /\ TotalRead("b") /\ TotalRead("ab")) =>
          wrapping["ab"].read[1] = wrapping["a"].read[1] + wrapping["b"].read[1]

C14_Witness ==
    /\ TotalRead("a")
    /\ TotalRead("b")
    /\ TotalRead("ab")
    /\ Len(wrap_args["a"].items) = 2
    /\ wrap_args["a"].items[1] = wrap_args["a"].items[2]
    /\ Len(wrap_args["b"].items) = 1
    /\ wrap_args["b"].items[1] # wrap_args["a"].items[1]
    /\ wrapping["ab"].read[1] = 2 * CostOf(wrap_args["a"].items[1]) + CostOf(wrap_args["b"].items[1])

(***************************************************************************)
(* Properties of the type checks                                           *)
(***************************************************************************)
IsListOfPresents(arg) ==
    /\ arg.type = "list"
    /\ \A k \in 1..Len(arg.items) : arg.items[k].type = "PresentDimensions"

\* C15: wrong argument types end in TypeError, never in a domain error or a
\* value: the constructor with a non-integer argument (whatever the other
\* arguments are), WrappingAnalysis with a non-list or a list holding a
\* non-PresentDimensions element (nothing stored, no total computed), and
\* wrapping_paper_required with a non-PresentDimensions argument.
C15_WrongTypesAreTypeErrors ==
    /\ \A o \in Objects :
          (Built(o) /\ ~IntegerArguments(o)) => objects[o] = Raised("TypeError")
    /\ \A w \in WrapInstances :
          (wrapping[w].status # "pending" /\ ~IsListOfPresents(wrap_args[w])) =>
              wrapping[w] = [NoWrapping EXCEPT !.status = "TypeError"]
    /\ \A o \in Objects :
          (cost[o] # None /\ cost[o][1].arg.type # "PresentDimensions") =>
              /\ cost[o][1].exc = "TypeError"
              /\ cost[o][1].value = None

C15_Witness ==
    /\ ctor_args["p"][1] = [type |-> "int", value |-> -1]
    /\ ctor_args["p"][2].type = "float"
    /\ objects["p"].status = "TypeError"
    /\ wrap_args["a"].type = "list"
    /\ Len(wrap_args["a"].items) = 2
    /\ wrap_args["a"].items[1].type = "PresentDimensions"
    /\ wrap_args["a"].items[2].type = "dict"
    /\ wrapping["a"].status = "TypeError"
    /\ cost["p"] # None
    /\ cost["p"][1].arg.type = "dict"

(***************************************************************************)
(* Properties of the file reader                                           *)
(***************************************************************************)
ReadOutcomes ==
    {"PathDoesNotExistError", "NotAFileError", "NotAccessibleError", "FileEncodingError", ""}

Called(operation) == \E k \in 1..Len(reader.calls) : reader.calls[k] = operation

RECURSIVE splitlines(_)
splitlines(text) ==
    LET at == {i \in 1..Len(text) : text[i] \in {"\n", "\r"}}
    IN  IF text = <<>> THEN <<>>
        ELSE IF at = {} THEN <<text>>
        ELSE LET k == CHOOSE i \in at : \A j \in at : i <= j
                 next == IF text[k] = "\r" /\ k < Len(text) /\ text[k + 1] = "\n"
                         THEN k + 2 ELSE k + 1
             IN  <<SubSeq(text, 1, k - 1)>> \o splitlines(SubSeq(text, next, Len(text)))

\* C17: on success read_lines returns the splitlines() form of the file text:
\* terminators removed, no trailing empty entry, [] for an empty file.
C17_Original ==
    (reader.fn = "read_lines" /\ reader.pc = "done" /\ reader.exc = "") =>
        reader.value = Some(splitlines(reader.node.text))

(***************************************************************************)
(* Properties of the command line programs                                 *)
(***************************************************************************)
\* main() has returned
MainReturned == cli.result # None

\* the path names a regular file that can be opened and decoded
ReadableFile == cli.node.kind = "file" /\ cli.node.readable /\ cli.node.utf8

\* the FileInputError the claims expect for the path
ExpectedReadError ==
    CASE cli.node.kind = "missing" -> "PathDoesNotExistError"
      [] cli.node.kind = "directory" -> "NotAFileError"
      [] ~cli.node.readable -> "NotAccessibleError"
      [] ~cli.node.utf8 -> "FileEncodingError"
      [] OTHER -> ""

\* the file's text is what the program accepts: only '(' and ')', or only lines
\* of three x-separated positive integers
ContentValid ==
    IF cli.program = "floorfinder"
    THEN \A i \in 1..Len(cli.node.text) : cli.node.text[i] \in {"(", ")"}
    ELSE \A k \in 1..Len(splitlines(cli.node.text)) :
            ThreePositiveTokens(splitlines(cli.node.text)[k])

CodesOf(codes) == {codes[name] : name \in DOMAIN codes}

\* C18: in both programs main() returns 0 exactly when the file was read and its
\* content validated and analysed, 3 whenever reading raised a FileInputError,
\* 4 whenever the content was rejected; the five codes 0..4 are pairwise
\* distinct and the same in both programs.
C18_ReturnCodes ==
    /\ floorfinder_ReturnCode = wrappingordercalc_ReturnCode
    /\ Cardinality(DOMAIN floorfinder_ReturnCode) = 5
    /\ CodesOf(floorfinder_ReturnCode) = 0..4
    /\ MainReturned =>
          /\ cli.argv = "file"
          /\ cli.result[1] \in {0, 3, 4}
          /\ (cli.result[1] = 0) <=> (ReadableFile /\ ContentValid)
          /\ (cli.result[1] = 3) <=> ~ReadableFile
          /\ (cli.result[1] = 3) => cli.cause = ExpectedReadError
          /\ (cli.result[1] = 4) <=> (ReadableFile /\ ~ContentValid)
          /\ (cli.result[1] = 4) => Catches(content_error_of(cli.program), cli.cause)
    /\ (cli.cause # "" /\ Catches("FileInputError", cli.cause)) => cli.code = Some(3)

C18_Witness ==
    /\ MainReturned
    /\ cli.program = "wrappingordercalc"
    /\ cli.result = Some(4)
    /\ cli.node.text = <<"2", "x", "3", "x", "4", "\n", "0", "x", "1", "x", "1", "\n">>

NoStepTwice == \A i, j \in 1..Len(cli.trace) : i # j => cli.trace[i] # cli.trace[j]

\* C19: a run whose main() returns has emitted exactly one notification: for
\* code 0 'Execution successful' and the result on stdout, nothing on stderr;
\* for 3 or 4 'Execution failed' and the message on stderr, nothing on stdout;
\* no step ran twice and nothing is printed after the return.
C19_OneNotification ==
    MainReturned =>
        /\ cli.pc \in {"returned", "exited"}
        /\ NoStepTwice
        /\ cli.pc = "exited" => cli.exit_code = cli.result
        /\ cli.result[1] = 0 =>
              /\ cli.stdout = <<Line("Execution successful", <<>>, ""),
                                Line(success_message(cli.program), cli.outcome, "")>>
              /\ cli.outcome # <<>>
              /\ cli.stderr = <<>>
        /\ cli.result[1] \in {3, 4} =>
              /\ cli.stderr = <<Line("Execution failed", <<>>, ""),
                                Line(error_message(cli.result[1]), <<>>, cli.cause)>>
              /\ cli.cause # ""
              /\ cli.stdout = <<>>

C19_Witness ==
    /\ cli.pc = "exited"
    /\ cli.program = "floorfinder"
    /\ cli.result = Some(0)
    /\ cli.outcome = <<-1, 1>>
    /\ Len(cli.stdout) = 2

LastTwo(stream) == SubSeq(stream, Len(stream) - 1, Len(stream))

AnalyzeCalled(i) == analysis[i].raised_analyze # None

\* C21 as stated: on an instance built from a valid sequence analyze() can be
\* invoked without error, and final_floor read afterwards is the number of "("
\* minus the number of ")".
C21_Original ==
    \A i \in Instances :
        AnalyzeCalled(i) =>
            /\ analysis[i].raised_analyze = Some("")
            /\ FinalFloorRead(i) =>
                  analysis[i].ret_final_floor[1] =
                      CountOf(analysis[i].sequence, "(") - CountOf(analysis[i].sequence, ")")

\* the value each property has by its definition
FinalFloorOf(sequence) == CountOf(sequence, "(") - CountOf(sequence, ")")

FirstBasementOf(sequence) ==
    IF BasementIndexes(sequence) = {} THEN 0
    ELSE CHOOSE p \in BasementIndexes(sequence) : \A k \in BasementIndexes(sequence) : p <= k

\* what the instances hold and have returned is what the inputs determine, and
\* no computation has run twice
PureAndComputedOnce ==
    /\ \A i \in Instances :
          /\ FinalFloorRead(i) =>
                analysis[i].ret_final_floor = Some(FinalFloorOf(analysis[i].sequence))
          /\ FirstBasementRead(i) =>
                analysis[i].ret_first_basement_direction_position
                    = Some(FirstBasementOf(analysis[i].sequence))
          /\ analysis[i].runs_compute_final_floor
                = IF FinalFloorRead(i) THEN 1 ELSE 0
          /\ analysis[i].runs_find_first_basement_direction
                = IF FirstBasementRead(i) THEN 1 ELSE 0
    /\ \A w \in WrapInstances :
          /\ TotalRead(w) => wrapping[w].read = Some(SumOfCosts(wrap_args[w].items))
          /\ wrapping[w].runs_sum = IF TotalRead(w) THEN 1 ELSE 0

\* a call after the first read returns what the first read returned and runs no
\* computation
RepeatedReadsAgree ==
    /\ \A i \in Instances :
          /\ FinalFloorRead(i) =>
                /\ analysis'[i].ret_final_floor = analysis[i].ret_final_floor
                /\ analysis'[i].runs_compute_final_floor
                     = analysis[i].runs_compute_final_floor
          /\ FirstBasementRead(i) =>
                /\ analysis'[i].ret_first_basement_direction_position
                     = analysis[i].ret_first_basement_direction_position
                /\ analysis'[i].runs_find_first_basement_direction
                     = analysis[i].runs_find_first_basement_direction
    /\ \A w \in WrapInstances :
          TotalRead(w) =>
              /\ wrapping'[w].read = wrapping[w].read
              /\ wrapping'[w].runs_sum = wrapping[w].runs_sum

\* C23: final_floor and first_basement_direction_position are functions of the
\* constructor input alone: read in any order, any number of times, with or
\* without another call before, they return the same values, and each
\* computation runs at most once per instance, also when its result is 0; the
\* same holds for the total of a WrappingAnalysis, also for the empty list.
C23_PureAndCached == []PureAndComputedOnce /\ [][RepeatedReadsAgree]_vars

C23_Witness ==
    /\ BothRead("a")
    /\ ~AnalyzeCalled("a")
    /\ analysis["a"].sequence = <<"(", ")">>
    /\ analysis["a"].ret_final_floor = Some(0)
    /\ analysis["a"].ret_first_basement_direction_position = Some(0)
    /\ analysis["a"].runs_compute_final_floor = 1
    /\ analysis["a"].runs_find_first_basement_direction = 1
    /\ wrap_args["a"].items = <<>>
    /\ wrapping["a"].read = Some(0)
    /\ wrapping["a"].runs_sum = 1

(***************************************************************************)
(* Properties of the wrapping order calculator                             *)
(***************************************************************************)
\* the lines of the file of the run
FileLines == splitlines(cli.node.text)

\* a run of wrappingordercalc on a file that can be read
WrappingRun ==
    /\ cli.program = "wrappingordercalc"
    /\ cli.argv = "file"
    /\ ReadableFile

\* the number a run of decimal digits s[from..to] denotes
RECURSIVE DecimalValue(_, _, _)
DecimalValue(s, from, to) ==
    IF to < from THEN 0
    ELSE 10 * DecimalValue(s, from, to - 1)
           + (CHOOSE d \in 0..9 : DigitValue[s[to]] = d)

\* a line is L, "x", W, "x", H with L, W, H runs of digits denoting positive
\* numbers
IsDimensionsLine(line) ==
    /\ Cardinality(TokenSpans(line)) = 3
    /\ \A span \in TokenSpans(line) :
          /\ span[1] <= span[2]
          /\ \A i \in span[1]..span[2] : line[i] \in Digits
          /\ DecimalValue(line, span[1], span[2]) > 0

\* the cost of the present a dimensions line describes
LineCost(line) ==
    LET spans == TokenSpans(line)
        first == CHOOSE a \in spans : \A b \in spans : a[1] <= b[1]
        last == CHOOSE a \in spans : \A b \in spans : b[1] <= a[1]
        middle == CHOOSE a \in spans : a # first /\ a # last
        L == DecimalValue(line, first[1], first[2])
        W == DecimalValue(line, middle[1], middle[2])
        H == DecimalValue(line, last[1], last[2])
        smallest == CHOOSE m \in {L * W, L * H, W * H} :
                        \A area \in {L * W, L * H, W * H} : m <= area
    IN  2 * (L * W + L * H + W * H) + smallest

RECURSIVE SumOfLineCosts(_)
SumOfLineCosts(lines) ==
    IF lines = <<>> THEN 0 ELSE LineCost(Head(lines)) + SumOfLineCosts(Tail(lines))

\* C22: on a file whose lines are all 'LxWxH' with positive integers, with or
\* without a line terminator after the last line, wrappingordercalc returns 0
\* and prints the sum over the lines of 2*(L*W + L*H + W*H) + min(L*W, L*H, W*H);
\* the empty file gives 0.
C22_TotalOfValidFile ==
    (WrappingRun /\ MainReturned /\ \A k \in 1..Len(FileLines) : IsDimensionsLine(FileLines[k])) =>
        /\ cli.result = Some(0)
        /\ Len(cli.stdout) = 2
        /\ cli.stdout[2].values = <<SumOfLineCosts(FileLines)>>
        /\ cli.node.text = <<>> => cli.stdout[2].values = <<0>>

C22_Witness ==
    /\ WrappingRun
    /\ MainReturned
    /\ cli.node.text = <<"2", "x", "3", "x", "4", "\n", "1", "x", "1", "x", "1", "0">>
    /\ cli.stdout[2].values = <<101>>

\* the success line of a notification
SuccessPrinted ==
    \E k \in 1..Len(cli.stdout) : cli.stdout[k].text = "Execution successful"

\* C24: if any line of the file is malformed, wherever it stands, wrappingordercalc
\* returns 4 with the malformed-input message on stderr, and at no moment of the
\* run is anything printed on stdout, no partial total either.
C24_AllOrNothing ==
    (WrappingRun /\ \E k \in 1..Len(FileLines) : ~ThreeIntegerTokens(FileLines[k])) =>
        /\ cli.stdout = <<>>
        /\ cli.outcome = <<>>
        /\ MainReturned =>
              /\ cli.result = Some(4)
              /\ cli.stderr = <<Line("Execution failed", <<>>, ""),
                                Line("Malformed input", <<>>, cli.cause)>>
              /\ Catches("PresentDimensionsError", cli.cause)

C24_Witness ==
    /\ WrappingRun
    /\ MainReturned
    /\ cli.node.text = <<"2", "x", "3", "x", "4", "\n", "1", "x", "x", "2", "x", "3", "\n">>
    /\ cli.result = Some(4)
    /\ cli.stdout = <<>>

(***************************************************************************)
(* Properties of the floor finder and of the order of the steps            *)
(***************************************************************************)
\* a run of floorfinder on a file that can be read
FloorRun ==
    /\ cli.program = "floorfinder"
    /\ cli.argv = "file"
    /\ ReadableFile

OnlyDirections == \A i \in 1..Len(cli.node.text) : cli.node.text[i] \in {"(", ")"}

\* C28: floorfinder hands the file's text to the analyzer as it is, so main()
\* returns 4 iff some character of the file is not "(" or ")", a line terminator
\* after a valid line included, and 0 iff all are; the empty file gives final
\* floor 0 and position 0.
C28_WholeTextIsAnalysed ==
    FloorRun =>
        /\ cli.content # None => cli.content = Some(cli.node.text)
        /\ MainReturned =>
              /\ (cli.result = Some(4)) <=> ~OnlyDirections
              /\ (cli.result = Some(0)) <=> OnlyDirections
              /\ cli.result = Some(0) =>
                    cli.stdout[2].values
                        = <<FinalFloorOf(cli.node.text), FirstBasementOf(cli.node.text)>>
              /\ (cli.result = Some(0) /\ cli.node.text = <<>>) =>
                    cli.stdout[2].values = <<0, 0>>

C28_Witness ==
    /\ FloorRun
    /\ MainReturned
    /\ cli.node.text = <<"(", ")", "\n">>
    /\ cli.result = Some(4)
    /\ cli.cause = "InvalidFloorDirectionsError"

\* the place of a step of main() in the order parse, read, validate and compute,
\* notify
StepRank(step) ==
    CASE step = "parse_arguments" -> 1
      [] step = "read" -> 2
      [] step = "analyse" -> 3
      [] step \in {"notify_success", "notify_error"} -> 4
      [] OTHER -> 5

Took(step) == \E k \in 1..Len(cli.trace) : cli.trace[k] = step

\* the read of the run ended with an exception, and nothing else interrupted the
\* run afterwards
ReadFailed ==
    /\ reader.pc = "done"
    /\ reader.exc # ""
    /\ cli.pc # "reading"
    /\ cli.exc \in {"", reader.exc}

\* the run's exit code
Exited(code) == cli.pc = "exited" /\ cli.exit_code = Some(code)

\* C25 as stated: every failure to read the file is a FileInputError, and the
\* program exits with 3, never with 2, also when the path is changed between the
\* checks and the open.
C25_Original ==
    /\ (reader.pc = "done" /\ reader.exc # "") => Catches("FileInputError", reader.exc)
    /\ (ReadFailed /\ cli.pc = "exited") => (Exited(3) /\ ~Exited(2))

\* the steps run in the order parse, read, validate and compute, notify; the
\* content is validated only after the read returned, and success is printed only
\* after the validation accepted the content
StepsInOrder ==
    /\ \A i, j \in 1..Len(cli.trace) :
          i < j => StepRank(cli.trace[i]) < StepRank(cli.trace[j])
    /\ Took("read") => Took("parse_arguments")
    /\ cli.content # None => (Took("read") /\ reader.pc = "done" /\ reader.exc = "")
    /\ Took("analyse") => cli.content # None
    /\ (cli.outcome # <<>> \/ cli.code = Some(4)) => Took("analyse")
    /\ SuccessPrinted => (Took("analyse") /\ cli.outcome # <<>>)

\* a run whose read failed reports no content error
NoContentErrorAfterFailedRead ==
    (reader.pc = "done" /\ reader.exc # "") =>
        (cli.code # Some(4) /\ ~Took("analyse") /\ ~Exited(4))

\* C29 as stated: the steps of a run are ordered parse, read, validate, compute,
\* notify; a run whose read fails returns 3 and never reports a content error, and
\* success is notified only after the content passed validation.
C29_Original ==
    /\ StepsInOrder
    /\ NoContentErrorAfterFailedRead
    /\ (ReadFailed /\ cli.pc \in {"returned", "raised", "exited"}) =>
          (cli.pc # "raised" /\ cli.result = Some(3))

(***************************************************************************)
(* Properties of the basement position on valid sequences                  *)
(***************************************************************************)
BelowZeroIndexes(sequence) == {k \in 1..Len(sequence) : RunningFloor(sequence, k) < 0}

C27_NegativeFinalFloorHasPosition ==
    \A i \in Instances :
        BothRead(i) =>
            LET p == analysis[i].ret_first_basement_direction_position[1]
                f == analysis[i].ret_final_floor[1]
            IN  /\ f < 0 => (1 <= p /\ p <= Len(analysis[i].sequence))
                /\ p = 0 => f >= 0

\* the converse fails: the basement was entered and left again
C27_Witness ==
    /\ BothRead("a")
    /\ analysis["a"].ret_first_basement_direction_position[1] >= 1
    /\ analysis["a"].ret_final_floor[1] >= 0
    /\ BothRead("b")
    /\ analysis["b"].ret_final_floor[1] < 0
    /\ analysis["b"].ret_first_basement_direction_position[1] >= 1

====
